---- MODULE Spec2Model ----
(***************************************************************************)
(* Cross-fitting estimator and R-Learner orchestration of the metalearners *)
(* library, as state machines.                                             *)
(*                                                                         *)
(* Row indices are 0-based as in the code: an array over n rows is a       *)
(* function with domain 0..n-1.  The feature value of row i of every X is  *)
(* i, so "the rows used in fit" are the X with the same number of rows.    *)
(* A python exception is the non-empty string in the field err of a call's *)
(* result; err = "" is a normal return.                                    *)
(*                                                                         *)
(* The learners themselves (estimator_factory) and scikit-learn's KFold /  *)
(* cross_validate are external: a trained model is a record holding the    *)
(* rows it was trained on, and cross_validate is taken with its defaults   *)
(* (error_score = nan: a fold whose fit raises is kept, unfitted, unless   *)
(* every fold failed).  A classifier has the attributes fitted_ and        *)
(* n_classes_ that _n_classes reads; predict on an unfitted model raises.  *)
(*                                                                         *)
(* A caller makes one call at a time: the call's result stays in last      *)
(* (rl_last for the learner) until the caller takes it (Resume, RLResume). *)
(***************************************************************************)
EXTENDS Integers, Sequences, FiniteSets, TLC

VARIABLES
    cfe,            \* the CrossFitEstimator object
    fit_rows,       \* len(X) of the latest fit call that stored fold models
    fit_completed,  \* some call of cfe.fit has returned normally
    last,           \* the latest call on cfe and its result
    learner,        \* the RLearner object
    rl_pc,          \* the statement of RLearner.fit the running call is at
    rl_last         \* the latest call on learner and its result

vars == <<cfe, fit_rows, fit_completed, last, learner, rl_pc, rl_last>>

\* Largest number of observations given to fit or predict.
MaxObs == 3

\* Largest fold count a CrossFitEstimator is constructed with.
MaxFolds == 3

\* n_folds values tried at construction (the constructor accepts any integer).
FoldCounts == (-1)..MaxFolds

\* Class counts an external classifier may report after training.
ClassCounts == {2, 3}

OosMethods == {"None", "overall", "median", "mean"}

PredictMethods == {"predict", "predict_proba"}

NoArray == [i \in {} |-> 0]

RECURSIVE SumSet(_)
SumSet(S) ==
    IF S = {} THEN 0
    ELSE LET x == CHOOSE y \in S : TRUE IN x + SumSet(S \ {x})

RECURSIVE SumSeq(_)
SumSeq(s) == IF Len(s) = 0 THEN 0 ELSE Head(s) + SumSeq(Tail(s))

Rows(n) == 0..(n - 1)

\* The outcomes of rng.shuffle(arange(n)): position p holds row Shuffles(n)[p].
Shuffles(n) ==
    {p \in [1..n -> Rows(n)] : \A i, j \in 1..n : i # j => p[i] # p[j]}

(***************************************************************************)
(* sklearn.model_selection.KFold(n_splits, shuffle=True)                   *)
(***************************************************************************)

\* KFold without the lower bound on n_splits.
KFoldRejects_NoLowerBound(n, n_splits) == n_splits > n

\* KFold.__init__ rejects n_splits <= 1, split() rejects n_splits > n_samples.
KFoldRejects(n, n_splits) == n_splits <= 1 \/ n_splits > n

\* fold_sizes without the remainder rows.
FoldSize_NoRemainder(n, n_splits, f) == n \div n_splits

\* fold_sizes: n // n_splits each, the first n % n_splits folds one more.
FoldSize(n, n_splits, f) ==
    (n \div n_splits) + (IF f <= n % n_splits THEN 1 ELSE 0)

RECURSIVE FoldStart(_, _, _)
FoldStart(n, n_splits, f) ==
    IF f <= 1 THEN 0
    ELSE FoldStart(n, n_splits, f - 1) + FoldSize(n, n_splits, f - 1)

\* The test index array of fold f: a slice of the shuffled indices.
KFoldTest(perm, n, n_splits, f) ==
    {perm[p] : p \in (FoldStart(n, n_splits, f) + 1)
                     ..(FoldStart(n, n_splits, f) + FoldSize(n, n_splits, f))}

KFoldTestIndices(perm, n, n_splits) ==
    [f \in 1..n_splits |-> KFoldTest(perm, n, n_splits, f)]

(***************************************************************************)
(* The external learner                                                    *)
(***************************************************************************)

\* estimator_factory(**estimator_params).fit(X[train], y[train]); ok = FALSE
\* is a fit that raised and left the estimator unfitted.
TrainModel(is_clf, train, ok, ncls) ==
    [fitted    |-> ok,
     is_clf    |-> is_clf,
     train     |-> IF ok THEN train ELSE {},
     coef      |-> IF ok THEN SumSet(train) + 1 ELSE 0,
     n_classes |-> IF ok /\ is_clf THEN ncls ELSE 0]

NoModel == TrainModel(FALSE, {}, FALSE, 0)

\* estimator.predict(x): a value for a regressor, a class label for a classifier.
ModelPredict(m, x) ==
    IF m.is_clf THEN (m.coef + x) % m.n_classes ELSE m.coef + x

\* estimator.predict_proba(x): one probability (in percent) per class.
ModelPredictProba(m, x) ==
    [j \in 1..m.n_classes |->
        IF j = 1 THEN 100 - (m.n_classes - 1) * (m.coef + x) ELSE m.coef + x]

\* getattr(estimator, method)(x) reshaped to n_outputs columns.
ModelOutputs(m, method, x) ==
    IF method = "predict_proba" THEN ModelPredictProba(m, x)
    ELSE <<ModelPredict(m, x)>>

(***************************************************************************)
(* CrossFitEstimator                                                       *)
(***************************************************************************)

\* _validate_n_folds: TRUE iff it raises.  Only __post__init__ calls it.
validate_n_folds_raises(n_folds) == n_folds <= 0

\* The generated dataclass __init__.  The hook dataclasses call is
\* __post_init__; the class defines __post__init__, which therefore never
\* runs: n_folds is not validated and the three init=False fields are not
\* attributes of the new object (has_* = FALSE: reading them raises
\* AttributeError).
NewCrossFitEstimator(n_folds, is_clf, enable_overall) ==
    [n_folds           |-> n_folds,
     is_clf            |-> is_clf,
     enable_overall    |-> enable_overall,
     has_estimators    |-> FALSE,
     estimators        |-> <<>>,
     has_test_indices  |-> FALSE,
     test_indices      |-> <<>>,
     has_overall       |-> FALSE,
     overall_estimator |-> NoModel]

\* cross_validate raises when some fold's fit raised and none returned.
AllFitsFailed(n_splits, ok) ==
    /\ \E f \in 1..n_splits : ~ok[f]
    /\ \A f \in 1..n_splits : ~ok[f]

CrossValidateRaises(n, n_splits, ok) ==
    KFoldRejects(n, n_splits) \/ AllFitsFailed(n_splits, ok)

\* cross_validate(estimator, X, y, cv=KFold(n_folds, shuffle=True),
\*                return_estimator=True, return_indices=True)
\* perm is the shuffle, ok[f] whether fold f's fit returned, ncls[f] the class
\* count fold f's classifier saw.  trained counts the calls of a model's fit.
cross_validate(c, n, perm, ok, ncls) ==
    IF CrossValidateRaises(n, c.n_folds, ok)
    THEN [err       |-> "ValueError",
          trained   |-> IF KFoldRejects(n, c.n_folds) THEN 0 ELSE c.n_folds,
          estimator |-> <<>>,
          test      |-> <<>>]
    ELSE [err       |-> "",
          trained   |-> c.n_folds,
          estimator |-> [f \in 1..c.n_folds |->
                           TrainModel(c.is_clf,
                                      Rows(n) \ KFoldTest(perm, n, c.n_folds, f),
                                      ok[f], ncls[f])],
          test      |-> KFoldTestIndices(perm, n, c.n_folds)]

\* _train_overall_estimator: a model fit on all rows.
train_overall_estimator(c, n, ncls) == TrainModel(c.is_clf, Rows(n), TRUE, ncls)

\* A fit that trains the overall model whatever enable_overall says.
fit_AlwaysOverall(c, n, perm, ok, ncls, overall_ok, overall_ncls) ==
    LET cv == cross_validate(c, n, perm, ok, ncls)
        c1 == [c EXCEPT !.has_estimators = TRUE,
                        !.estimators = cv.estimator,
                        !.has_test_indices = TRUE,
                        !.test_indices = cv.test]
    IN  IF cv.err # ""
        THEN [cfe |-> c, err |-> cv.err, trained |-> cv.trained]
        ELSE IF ~overall_ok
        THEN [cfe |-> c1, err |-> "FitError", trained |-> cv.trained + 1]
        ELSE [cfe |-> [c1 EXCEPT !.has_overall = TRUE,
                                 !.overall_estimator =
                                     train_overall_estimator(c, n, overall_ncls)],
              err |-> "", trained |-> cv.trained + 1]

\* CrossFitEstimator.fit.  The result holds the object after the call (cfe),
\* the exception that left it (err) and the number of model fits started.
fit(c, n, perm, ok, ncls, overall_ok, overall_ncls) ==
    LET cv == cross_validate(c, n, perm, ok, ncls)
        c1 == [c EXCEPT !.has_estimators = TRUE,
                        !.estimators = cv.estimator,
                        !.has_test_indices = TRUE,
                        !.test_indices = cv.test]
    IN  IF cv.err # ""
        THEN [cfe |-> c, err |-> cv.err, trained |-> cv.trained]
        ELSE IF ~c.enable_overall
        THEN [cfe |-> c1, err |-> "", trained |-> cv.trained]
        ELSE IF ~overall_ok
        THEN [cfe |-> c1, err |-> "FitError", trained |-> cv.trained + 1]
        ELSE [cfe |-> [c1 EXCEPT !.has_overall = TRUE,
                                 !.overall_estimator =
                                     train_overall_estimator(c, n, overall_ncls)],
              err |-> "", trained |-> cv.trained + 1]

\* A prediction call's result: the exception (err), the returned array
\* (value), the models whose predict method was called (consulted: fold
\* numbers, 0 for the overall model) and, per output row, the folds whose
\* prediction was stored in it (writers).
Raise(e, consulted) ==
    [err |-> e, value |-> NoArray, consulted |-> consulted, writers |-> NoArray]

Return(value, consulted, writers) ==
    [err |-> "", value |-> value, consulted |-> consulted, writers |-> writers]

\* The property _n_classes: [err, n].
n_classes(c) ==
    IF ~c.has_estimators THEN [err |-> "AttributeError", n |-> 0]
    ELSE IF Len(c.estimators) = 0 THEN [err |-> "RuntimeError", n |-> 0]
    ELSE IF \E f \in 1..Len(c.estimators) : ~c.estimators[f].is_clf
    THEN [err |-> "RuntimeError", n |-> 0]
    ELSE IF \E f \in 1..Len(c.estimators) : ~c.estimators[f].fitted
    THEN [err |-> "RuntimeError", n |-> 0]
    ELSE IF \E f, g \in 1..Len(c.estimators) :
                c.estimators[f].n_classes # c.estimators[g].n_classes
    THEN [err |-> "RuntimeError", n |-> 0]
    ELSE [err |-> "", n |-> c.estimators[1].n_classes]

\* _n_outputs(method): [err, n].
n_outputs(c, method) ==
    IF method = "predict_proba" THEN n_classes(c) ELSE [err |-> "", n |-> 1]

\* _initialize_prediction_tensor: np.zeros((n_observations, n_outputs, n_folds)).
initialize_prediction_tensor(n_observations, n_out, n_folds) ==
    [i \in Rows(n_observations) |-> [j \in 1..n_out |-> [f \in 1..n_folds |-> 0]]]

\* One model's predict method on the rows S of X; an unfitted model raises.
MethodRaises(m, method) ==
    IF ~m.fitted THEN "NotFittedError"
    ELSE IF method = "predict_proba" /\ ~m.is_clf THEN "AttributeError"
    ELSE ""

\* The loop of _predict_all from estimator i on: [err, tensor, consulted].
RECURSIVE predict_all_loop(_, _, _, _, _, _)
predict_all_loop(c, n, method, i, predictions, consulted) ==
    IF i > Len(c.estimators)
    THEN [err |-> "", tensor |-> predictions, consulted |-> consulted]
    ELSE IF MethodRaises(c.estimators[i], method) # ""
    THEN [err |-> MethodRaises(c.estimators[i], method), tensor |-> predictions,
          consulted |-> consulted \cup {i}]
    ELSE IF i > c.n_folds
    THEN [err |-> "IndexError", tensor |-> predictions,
          consulted |-> consulted \cup {i}]
    ELSE predict_all_loop(c, n, method, i + 1,
            [r \in Rows(n) |->
                [j \in DOMAIN predictions[r] |->
                    [predictions[r][j] EXCEPT
                        ![i] = ModelOutputs(c.estimators[i], method, r)[j]]]],
            consulted \cup {i})

\* _predict_all: the (n, n_outputs, n_folds) tensor of all folds' predictions.
predict_all(c, n, method) ==
    LET no == n_outputs(c, method)
    IN  IF no.err # "" THEN [err |-> no.err, tensor |-> NoArray, consulted |-> {}]
        ELSE IF c.n_folds < 0
        THEN [err |-> "ValueError", tensor |-> NoArray, consulted |-> {}]
        ELSE IF ~c.has_estimators
        THEN [err |-> "AttributeError", tensor |-> NoArray, consulted |-> {}]
        ELSE predict_all_loop(c, n, method, 1,
                initialize_prediction_tensor(n, no.n, c.n_folds), {})

\* np.mean over the fold axis, as the fraction <<sum, count>>.
Mean(v) == <<SumSeq(v), Len(v)>>

\* s with x inserted before the first larger element (s sorted).
RECURSIVE Insert(_, _)
Insert(s, x) ==
    IF Len(s) = 0 THEN <<x>>
    ELSE IF x <= Head(s) THEN <<x>> \o s
    ELSE <<Head(s)>> \o Insert(Tail(s), x)

RECURSIVE Sort(_)
Sort(s) == IF Len(s) = 0 THEN <<>> ELSE Insert(Sort(Tail(s)), Head(s))

\* A median that takes the upper middle element of an even number of values.
Median_UpperMiddle(v) == <<Sort(v)[(Len(v) \div 2) + 1], 1>>

\* np.median over the fold axis, as a fraction: the middle element of the
\* sorted values, or the mean of the two middle ones.
Median(v) ==
    LET s == Sort(v)
        k == Len(v)
    IN  IF k % 2 = 1 THEN <<s[(k + 1) \div 2], 1>>
        ELSE <<s[k \div 2] + s[(k \div 2) + 1], 2>>

\* _predict_mean / _predict_median
predict_mean(c, n, method) ==
    LET all == predict_all(c, n, method)
    IN  IF all.err # "" THEN Raise(all.err, all.consulted)
        ELSE Return([r \in Rows(n) |->
                        [j \in DOMAIN all.tensor[r] |-> Mean(all.tensor[r][j])]],
                    all.consulted, NoArray)

predict_median(c, n, method) ==
    LET all == predict_all(c, n, method)
    IN  IF all.err # "" THEN Raise(all.err, all.consulted)
        ELSE Return([r \in Rows(n) |->
                        [j \in DOMAIN all.tensor[r] |-> Median(all.tensor[r][j])]],
                    all.consulted, NoArray)

Min(a, b) == IF a <= b THEN a ELSE b

\* The loop of _predict_in_sample over zip(_estimators, _test_indices) from
\* pair i on.  index_matrix(X, indices) raises for an index X does not have.
RECURSIVE predict_in_sample_loop(_, _, _, _, _, _, _)
predict_in_sample_loop(c, n, method, i, predictions, consulted, writers) ==
    IF i > Min(Len(c.estimators), Len(c.test_indices))
    THEN Return(predictions, consulted, writers)
    ELSE IF \E r \in c.test_indices[i] : r \notin Rows(n)
    THEN Raise("IndexError", consulted)
    ELSE IF MethodRaises(c.estimators[i], method) # ""
    THEN Raise(MethodRaises(c.estimators[i], method), consulted \cup {i})
    ELSE predict_in_sample_loop(c, n, method, i + 1,
            [r \in Rows(n) |->
                IF r \in c.test_indices[i]
                THEN ModelOutputs(c.estimators[i], method, r)
                ELSE predictions[r]],
            consulted \cup {i},
            [r \in Rows(n) |->
                IF r \in c.test_indices[i] THEN writers[r] \cup {i}
                ELSE writers[r]])

\* _predict_in_sample with the first fold's model predicting every row.
predict_in_sample_FirstFold(c, n, method) ==
    IF ~c.has_test_indices THEN Raise("AttributeError", {})
    ELSE IF MethodRaises(c.estimators[1], method) # ""
    THEN Raise(MethodRaises(c.estimators[1], method), {1})
    ELSE Return([r \in Rows(n) |-> ModelOutputs(c.estimators[1], method, r)],
                {1}, [r \in Rows(n) |-> {1}])

\* _predict_in_sample
predict_in_sample(c, n, method) ==
    LET no == n_outputs(c, method)
    IN  IF ~c.has_test_indices THEN Raise("AttributeError", {})
        ELSE IF Len(c.test_indices) = 0 THEN Raise("ValueError", {})
        ELSE IF no.err # "" THEN Raise(no.err, {})
        ELSE predict_in_sample_loop(c, n, method, 1,
                [r \in Rows(n) |-> [j \in 1..no.n |-> 0]], {},
                [r \in Rows(n) |-> {}])

\* _validate_oos_method without the check of enable_overall.
validate_oos_method_raises_NameOnly(oos_method, enable_overall) ==
    oos_method \notin {"overall", "median", "mean"}

\* _validate_oos_method: TRUE iff it raises.
validate_oos_method_raises(oos_method, enable_overall) ==
    \/ oos_method \notin {"overall", "median", "mean"}
    \/ oos_method = "overall" /\ ~enable_overall

\* getattr(self.overall_estimator, method)(X): the model's own output, one
\* value per row for predict and one row of probabilities for predict_proba.
predict_overall(c, n, method) ==
    IF ~c.has_overall THEN Raise("AttributeError", {})
    ELSE IF MethodRaises(c.overall_estimator, method) # ""
    THEN Raise(MethodRaises(c.overall_estimator, method), {0})
    ELSE Return([r \in Rows(n) |->
                    IF method = "predict_proba"
                    THEN ModelPredictProba(c.overall_estimator, r)
                    ELSE ModelPredict(c.overall_estimator, r)],
                {0}, NoArray)

\* The classifier test made on the overall model instead of the fold models.
AnyClassifier_Overall(c) == c.overall_estimator.is_clf

\* any(is_classifier(est) for est in self._estimators)
AnyClassifier(c) == \E f \in 1..Len(c.estimators) : c.estimators[f].is_clf

\* CrossFitEstimator._predict on the n-row X.
predict(c, n, is_oos, method, oos_method) ==
    IF is_oos
    THEN IF validate_oos_method_raises(oos_method, c.enable_overall)
         THEN Raise("ValueError", {})
         ELSE IF oos_method = "overall" THEN predict_overall(c, n, method)
         ELSE IF oos_method = "mean"
         THEN IF method # "predict_proba" /\ ~c.has_estimators
              THEN Raise("AttributeError", {})
              ELSE IF method # "predict_proba" /\ AnyClassifier(c)
              THEN Raise("ValueError", {})
              ELSE predict_mean(c, n, method)
         ELSE predict_median(c, n, method)
    ELSE predict_in_sample(c, n, method)

\* The shape of the array _predict returns on n rows.  The overall model's
\* own predict gives (n,) and its predict_proba (n, n_classes_); the other
\* paths reduce the (n, n_outputs, n_folds) tensor over its last axis
\* (np.mean / np.median with axis=2, predictions[:, :, 0]).
predict_shape(c, n, is_oos, method, oos_method) ==
    IF is_oos /\ oos_method = "overall"
    THEN IF method = "predict_proba"
         THEN <<n, c.overall_estimator.n_classes>>
         ELSE <<n>>
    ELSE <<n, n_outputs(c, method).n>>

(***************************************************************************)
(* One CrossFitEstimator and its callers                                   *)
(***************************************************************************)

Call(op, n, is_oos, oos_method, res, trained) ==
    [op         |-> op,
     rows       |-> n,
     is_oos     |-> is_oos,
     oos_method |-> oos_method,
     err        |-> res.err,
     value      |-> res.value,
     consulted  |-> res.consulted,
     writers    |-> res.writers,
     trained    |-> trained]

NoLearner == [constructed |-> FALSE]

NoCall == Call("idle", 0, FALSE, "None", Return(NoArray, {}, NoArray), 0)

Init ==
    /\ \E k \in FoldCounts, is_clf \in BOOLEAN, enable_overall \in BOOLEAN :
          cfe = NewCrossFitEstimator(k, is_clf, enable_overall)
    /\ fit_rows = 0
    /\ fit_completed = FALSE
    /\ last = NoCall
    /\ learner = NoLearner
    /\ rl_pc = "idle"
    /\ rl_last = NoCall

\* The folds whose model's fit raises: none, the first one, all of them.
FailurePatterns(n_folds) == {{}, {1} \cap (1..n_folds), 1..n_folds}

\* The class counts the fold classifiers report when the target has k
\* classes: k each, or one class less for the first fold (a class absent from
\* its training rows).  A regressor reports none.
ClassPatterns(is_clf, n_folds, counts) ==
    IF is_clf
    THEN {[f \in 1..n_folds |-> k] : k \in counts}
         \cup {[f \in 1..n_folds |-> IF f = 1 THEN k - 1 ELSE k] : k \in counts}
    ELSE {[f \in 1..n_folds |-> 0]}

MaxOf(S) == CHOOSE x \in S : \A y \in S : y <= x

\* cfe.fit(X, y) on n rows.  An input the call does not read (the shuffle
\* and the fold fits when KFold rejects, the overall fit when it is not
\* reached) takes a single value.
Fit ==
    /\ last.op = "idle"
    /\ \E n \in 1..MaxObs :
       \E perm \in (IF KFoldRejects(n, cfe.n_folds)
                    THEN {[p \in 1..n |-> p - 1]} ELSE Shuffles(n)) :
       \E failed \in (IF KFoldRejects(n, cfe.n_folds)
                      THEN {{}} ELSE FailurePatterns(cfe.n_folds)) :
       \E ncls \in (IF KFoldRejects(n, cfe.n_folds) \/ failed = 1..cfe.n_folds
                    THEN {[f \in 1..cfe.n_folds |-> 0]}
                    ELSE ClassPatterns(cfe.is_clf, cfe.n_folds, ClassCounts)) :
       \E overall_ok \in (IF /\ cfe.enable_overall
                             /\ ~KFoldRejects(n, cfe.n_folds)
                             /\ failed # 1..cfe.n_folds
                          THEN BOOLEAN ELSE {TRUE}) :
        LET ok  == [f \in 1..cfe.n_folds |-> f \notin failed]
            res == fit(cfe, n, perm, ok, ncls, overall_ok,
                       MaxOf({ncls[f] : f \in 1..cfe.n_folds} \cup {0}))
        IN  /\ cfe' = res.cfe
            /\ fit_rows' = IF res.cfe = cfe /\ res.err # "" THEN fit_rows ELSE n
            /\ fit_completed' = (fit_completed \/ res.err = "")
            /\ last' = Call("fit", n, FALSE, "None",
                            [err |-> res.err, value |-> NoArray,
                             consulted |-> {}, writers |-> NoArray],
                            res.trained)
            /\ UNCHANGED <<learner, rl_pc, rl_last>>

\* The caller takes the result of its call and is free to make the next one.
Resume ==
    /\ last.op # "idle"
    /\ last' = NoCall
    /\ UNCHANGED <<cfe, fit_rows, fit_completed, learner, rl_pc, rl_last>>

\* The arguments of a prediction call: oos_method is read only if is_oos.
PredictArgs ==
    {<<FALSE, "None">>} \cup {<<TRUE, m>> : m \in OosMethods}

\* A predict that drops the recorded held-out index sets once it has used them.
Predict_DropsIndices ==
    /\ last.op = "idle"
    /\ \E n \in 1..MaxObs, a \in PredictArgs :
        /\ last' = Call("predict", n, a[1], a[2],
                        predict(cfe, n, a[1], "predict", a[2]), 0)
        /\ cfe' = IF a[1] THEN cfe
                  ELSE [cfe EXCEPT !.has_test_indices = FALSE, !.test_indices = <<>>]
    /\ UNCHANGED <<fit_rows, fit_completed, learner, rl_pc, rl_last>>

\* cfe.predict(X, is_oos, oos_method) on n rows.
Predict ==
    /\ last.op = "idle"
    /\ \E n \in 1..MaxObs, a \in PredictArgs :
        last' = Call("predict", n, a[1], a[2],
                     predict(cfe, n, a[1], "predict", a[2]), 0)
        /\ UNCHANGED <<cfe, fit_rows, fit_completed, learner, rl_pc, rl_last>>

\* cfe.predict_proba(X, is_oos, oos_method) on n rows.
PredictProba ==
    /\ last.op = "idle"
    /\ \E n \in 1..MaxObs, a \in PredictArgs :
        last' = Call("predict_proba", n, a[1], a[2],
                     predict(cfe, n, a[1], "predict_proba", a[2]), 0)
        /\ UNCHANGED <<cfe, fit_rows, fit_completed, learner, rl_pc, rl_last>>

Next == Fit \/ Predict \/ PredictProba \/ Resume

Spec == Init /\ [][Next]_vars

(***************************************************************************)
(* Properties of the CrossFitEstimator                                     *)
(***************************************************************************)

IsPrediction == last.op \in PredictMethods

AllFoldsFitted ==
    /\ cfe.has_estimators
    /\ \A f \in 1..Len(cfe.estimators) : cfe.estimators[f].fitted

\* C1: once fit has recorded the held-out index sets of a call on N rows,
\* there are n_folds of them, they are pairwise disjoint and their union is
\* {0, ..., N-1}.
C1_TestIndicesPartitionRows ==
    cfe.has_test_indices =>
        /\ Len(cfe.test_indices) = cfe.n_folds
        /\ \A f, g \in 1..Len(cfe.test_indices) :
              f # g => cfe.test_indices[f] \cap cfe.test_indices[g] = {}
        /\ UNION {cfe.test_indices[f] : f \in 1..Len(cfe.test_indices)}
              = Rows(fit_rows)

\* A fit on 3 rows with 2 folds (folds of unequal size) has returned.
C1_Witness ==
    /\ last.op = "fit" /\ last.err = "" /\ last.rows = 3
    /\ cfe.n_folds = 2 /\ cfe.has_test_indices

\* C2: an in-sample prediction on the rows used in fit that returns gives, in
\* every row i, the output of the fold model whose held-out set contains i
\* and whose training rows exclude i, each row being stored by exactly that
\* one fold; and predict returns whenever every fold model is fitted.
C2_InSampleUsesHeldOutModel ==
    (IsPrediction /\ ~last.is_oos /\ last.rows = fit_rows) =>
        /\ last.err = "" =>
             /\ DOMAIN last.value = Rows(fit_rows)
             /\ \A r \in Rows(fit_rows) :
                   \E f \in 1..cfe.n_folds :
                      /\ r \in cfe.test_indices[f]
                      /\ r \notin cfe.estimators[f].train
                      /\ last.value[r] = ModelOutputs(cfe.estimators[f], last.op, r)
                      /\ last.writers[r] = {f}
        /\ (last.op = "predict" /\ cfe.has_test_indices /\ AllFoldsFitted)
              => last.err = ""

\* An in-sample predict_proba on the 3 rows of a 2-fold fit has returned.
C2_Witness ==
    /\ last.op = "predict_proba" /\ ~last.is_oos /\ last.err = ""
    /\ last.rows = 3 /\ fit_rows = 3 /\ cfe.n_folds = 2

\* The K fold models' outputs for row r at output position j, in fold order.
FoldOutputs(method, r, j) ==
    [f \in 1..cfe.n_folds |-> ModelOutputs(cfe.estimators[f], method, r)[j]]

\* The rearrangements of v in nondecreasing order.
Sorted(v) ==
    {s \in {[i \in DOMAIN v |-> v[p[i]]] :
                p \in {q \in [DOMAIN v -> DOMAIN v] :
                          \A a, b \in DOMAIN v : a # b => q[a] # q[b]}} :
        \A i \in DOMAIN s : (i + 1) \in DOMAIN s => s[i] <= s[i + 1]}

\* The fraction q equals the median of the values v.
IsMedianOf(q, v) ==
    \E s \in Sorted(v) :
        LET k == Len(v)
        IN  IF k % 2 = 1 THEN q[1] = s[(k + 1) \div 2] * q[2]
            ELSE 2 * q[1] = (s[k \div 2] + s[(k \div 2) + 1]) * q[2]

\* The fraction q equals the mean of the values v.
IsMeanOf(q, v) == q[1] * Len(v) = SumSeq(v) * q[2]

\* C3: an out-of-sample 'mean' ('median') prediction that returns holds, for
\* every row and output position, the mean (median) of the K fold models'
\* outputs, and calls every fold model and not the overall model.
C3_MeanMedianOverFolds ==
    (IsPrediction /\ last.is_oos /\ last.oos_method \in {"mean", "median"}
        /\ last.err = "") =>
        /\ last.consulted = 1..cfe.n_folds
        /\ DOMAIN last.value = Rows(last.rows)
        /\ \A r \in Rows(last.rows) :
              /\ DOMAIN last.value[r] =
                    DOMAIN ModelOutputs(cfe.estimators[1], last.op, r)
              /\ \A j \in DOMAIN last.value[r] :
                    /\ last.value[r][j][2] > 0
                    /\ IF last.oos_method = "mean"
                       THEN IsMeanOf(last.value[r][j], FoldOutputs(last.op, r, j))
                       ELSE IsMedianOf(last.value[r][j], FoldOutputs(last.op, r, j))

\* A median over two fold models that disagree has been returned.
C3_Witness ==
    /\ last.op = "predict" /\ last.is_oos /\ last.oos_method = "median"
    /\ last.err = "" /\ cfe.n_folds = 2 /\ cfe.has_overall
    /\ \E r \in Rows(last.rows) :
          FoldOutputs("predict", r, 1)[1] # FoldOutputs("predict", r, 1)[2]

\* C4: a call of fit that raises leaves the estimator as it was before the
\* call: no fold models and no held-out index sets of that call are kept.
C4_FailedFitKeepsNothing ==
    [][(last'.op = "fit" /\ last'.err # "") => cfe' = cfe]_vars

\* C5: fit on an estimator with n_folds <= 0 raises ValueError before any
\* model's fit is called, and stores nothing.
C5_NonPositiveFoldsRejected ==
    /\ (last.op = "fit" /\ cfe.n_folds <= 0) =>
          (last.err = "ValueError" /\ last.trained = 0)
    /\ cfe.n_folds <= 0 => (~cfe.has_estimators /\ ~cfe.has_test_indices)

\* fit has been called on an estimator constructed with n_folds <= 0.
C5_Witness ==
    /\ last.op = "fit" /\ validate_n_folds_raises(cfe.n_folds)
    /\ last.err = "ValueError"

\* C6: a prediction requested while no call of fit has returned normally
\* raises.
C6_PredictionBeforeFitRaises ==
    (IsPrediction /\ ~fit_completed) => last.err # ""

\* The fold models, the overall model and the held-out index sets.
FitState(c) ==
    <<c.has_estimators, c.estimators, c.has_overall, c.overall_estimator,
      c.has_test_indices, c.test_indices>>

C8_OverallNeedsEnableOverall ==
    (IsPrediction /\ last.is_oos /\ last.oos_method = "overall"
        /\ ~cfe.enable_overall) =>
        (last.err = "ValueError" /\ last.consulted = {})

\* 'overall' has been requested from a fitted estimator without overall model.
C8_Witness ==
    /\ last.op = "predict_proba" /\ last.is_oos /\ last.oos_method = "overall"
    /\ ~cfe.enable_overall /\ fit_completed /\ last.err = "ValueError"

\* C9: an out-of-sample 'mean' of predict raises when some fold model is a
\* classifier, without calling a model; a 'mean' of predict_proba over fitted
\* classifiers that agree on the class count returns.
C9_NoMeanOfClasses ==
    (IsPrediction /\ last.is_oos /\ last.oos_method = "mean"
        /\ cfe.has_estimators
        /\ \E f \in 1..Len(cfe.estimators) : cfe.estimators[f].is_clf) =>
        /\ last.op = "predict" => (last.err = "ValueError" /\ last.consulted = {})
        /\ (/\ last.op = "predict_proba"
            /\ AllFoldsFitted
            /\ \A f \in 1..Len(cfe.estimators) :
                  /\ cfe.estimators[f].is_clf
                  /\ cfe.estimators[f].n_classes = cfe.estimators[1].n_classes)
              => last.err = ""

\* A mean of hard class predictions has been requested from fitted classifiers.
C9_Witness ==
    /\ last.op = "predict" /\ last.is_oos /\ last.oos_method = "mean"
    /\ AllFoldsFitted /\ cfe.is_clf /\ ~cfe.enable_overall
    /\ last.err = "ValueError"

\* C23: once a call of fit has returned normally the estimator holds
\* n_folds fold models and n_folds held-out index sets, and it holds an
\* overall model iff enable_overall is true.
C23_FoldModelsAndOverall ==
    fit_completed =>
        /\ cfe.has_estimators /\ Len(cfe.estimators) = cfe.n_folds
        /\ cfe.has_test_indices /\ Len(cfe.test_indices) = cfe.n_folds
        /\ (cfe.has_overall <=> cfe.enable_overall)

\* A fit has returned on an estimator of at least two folds constructed with
\* enable_overall = False: it holds the fold models and no overall model.
C23_Witness ==
    /\ last.op = "fit" /\ last.err = ""
    /\ cfe.n_folds >= 2 /\ ~cfe.enable_overall
    /\ Len(cfe.estimators) = cfe.n_folds /\ ~cfe.has_overall

\* C20: a fit on as many rows as the estimator's fit before it, by the same
\* estimator (same n_folds, same construction arguments and so the same
\* seed), records the held-out index sets the fit before it recorded.
C20_SameSeedSamePartition ==
    [][(/\ cfe.has_test_indices
        /\ last'.op = "fit" /\ last'.err = ""
        /\ last'.rows = fit_rows)
       => cfe'.test_indices = cfe.test_indices]_vars

(***************************************************************************)
(* MetaLearner orchestration and the R-Learner                             *)
(*                                                                         *)
(* rlearner.py names a slot by model_kind alone; each R-Learner slot holds *)
(* one CrossFitEstimator, the model_ord 0 of metalearner.py.               *)
(* RLearner.fit is followed statement by statement (rl_pc); while a call   *)
(* of fit runs no other call on the learner starts.                        *)
(***************************************************************************)

PROPENSITY_MODEL == "propensity_model"

OUTCOME_MODEL == "outcome_model"

TREATMENT_MODEL == "treatment_model"

\* RLearner.nuisance_model_names / treatment_model_names
nuisance_model_names == {PROPENSITY_MODEL, OUTCOME_MODEL}

treatment_model_names == {TREATMENT_MODEL}

ModelKinds == nuisance_model_names \cup treatment_model_names

\* Fold count the learner gives to each slot's CrossFitEstimator.
LearnerFolds == 2

\* RLearner._validate_models: the propensity model is a classifier, the
\* outcome model a classifier iff is_classification, the treatment model a
\* regressor.
KindIsClassifier(is_classification, model_kind) ==
    \/ model_kind = PROPENSITY_MODEL
    \/ model_kind = OUTCOME_MODEL /\ is_classification

\* RLearner._nuisance_predict_methods and predict_treatment's use of predict.
predict_method(is_classification, model_kind) ==
    IF KindIsClassifier(is_classification, model_kind) THEN "predict_proba"
    ELSE "predict"

\* MetaLearner.__init__ for an RLearner given factories for all three slots:
\* one new CrossFitEstimator per slot, none pre-fitted.
NewRLearner(is_classification, n_folds) ==
    [constructed       |-> TRUE,
     is_classification |-> is_classification,
     n_variants        |-> 2,
     prefitted         |-> {},
     models            |-> [k \in ModelKinds |->
                              NewCrossFitEstimator(
                                  n_folds,
                                  KindIsClassifier(is_classification, k),
                                  TRUE)]]

\* metalearner.py line 30: a nuisance slot name of other learners, not a
\* slot of the RLearner.
VARIANT_OUTCOME_MODEL == "variant_outcome_model"

\* What a caller passes for a factory: None, a classifier class or a
\* regressor class.  A pre-fitted CrossFitEstimator is named by the factory
\* it was built with ("None": no pre-fitted estimator is passed).
Factories == {"None", "classifier", "regressor"}

\* Largest n_variants a caller passes to the constructor.
MaxVariants == 3

\* sklearn.base.is_classifier / is_regressor of a factory; False for None.
is_classifier(factory) == factory = "classifier"

is_regressor(factory) == factory = "regressor"

\* A CrossFitEstimator built with the given factory and fit by its owner on
\* MaxObs rows (folds unshuffled, every fit returned) before it is handed to
\* the learner's constructor.
PrefittedEstimator(factory) ==
    LET n_cls == IF is_classifier(factory) THEN 2 ELSE 0
    IN  fit(NewCrossFitEstimator(LearnerFolds, is_classifier(factory), TRUE),
            MaxObs, [p \in 1..MaxObs |-> p - 1],
            [f \in 1..LearnerFolds |-> TRUE],
            [f \in 1..LearnerFolds |-> n_cls], TRUE, n_cls).cfe

\* _initialize_model_dict for an argument that is not a dict of the names.
initialize_model_dict(argument, expected_names) ==
    [name \in expected_names |-> argument]

\* _combine_propensity_and_nuisance_specs
combine_propensity_and_nuisance_specs(propensity_specs, nuisance_specs, names) ==
    IF PROPENSITY_MODEL \in names
    THEN [name \in names |->
            IF name = PROPENSITY_MODEL THEN propensity_specs
            ELSE initialize_model_dict(
                     nuisance_specs, names \ {PROPENSITY_MODEL})[name]]
    ELSE initialize_model_dict(nuisance_specs, names)

\* RLearner._supports_multi_treatment / _supports_multi_class
supports_multi_treatment == FALSE

supports_multi_class == FALSE

\* A _validate_n_variants of a learner that accepts any int above 1.
validate_n_variants_MultiTreatment(is_int, n_variants) ==
    IF ~is_int \/ n_variants < 2 THEN "ValueError" ELSE ""

\* _validate_n_variants: the exception it raises, "" if it returns.
\* is_int is isinstance(n_variants, int).
validate_n_variants(is_int, n_variants) ==
    IF ~is_int \/ n_variants < 2 THEN "ValueError"
    ELSE IF n_variants > 2 /\ ~supports_multi_treatment
    THEN "NotImplementedError"
    ELSE ""

\* RLearner._validate_models, which overrides MetaLearner._validate_models:
\* the exception it raises, "" if it returns.  It reads the factories the
\* caller passed, also for a slot that was handed in pre-fitted.
\* None has no attribute fit; is_classifier(None) and is_regressor(None) are
\* False.
validate_models(is_classification, nuisance_model_factory, treatment_model_factory, fit_has_sample_weight) ==
    IF treatment_model_factory[TREATMENT_MODEL] = "None" THEN "AttributeError"
    ELSE IF ~fit_has_sample_weight THEN "ValueError"
    ELSE IF /\ is_classification
            /\ ~is_classifier(nuisance_model_factory[OUTCOME_MODEL])
    THEN "ValueError"
    ELSE IF /\ ~is_classification
            /\ ~is_regressor(nuisance_model_factory[OUTCOME_MODEL])
    THEN "ValueError"
    ELSE IF ~is_classifier(nuisance_model_factory[PROPENSITY_MODEL])
    THEN "ValueError"
    ELSE IF ~is_regressor(treatment_model_factory[TREATMENT_MODEL])
    THEN "ValueError"
    ELSE ""

\* MetaLearner.__init__ as run for RLearner(...): [err, learner].
\* fitted_nuisance_models maps slot names to pre-fitted estimators (None is
\* the empty mapping: both leave every slot to be fitted).
\* n_folds is LearnerFolds for every slot.  random_state is kept on the
\* learner and named in the CrossFitEstimator(...) calls, but the
\* CrossFitEstimator of cross_fit_estimator.py has no field of that name and
\* its fit builds KFold without one: no slot's shuffle depends on it, and the
\* argument is left out here.
metalearner_init(a) ==
    LET nuisance_model_factory ==
            combine_propensity_and_nuisance_specs(
                a.propensity_model_factory, a.nuisance_model_factory,
                nuisance_model_names)
        treatment_model_factory ==
            initialize_model_dict(a.treatment_model_factory,
                                  treatment_model_names)
        fitted_keys == DOMAIN a.fitted_nuisance_models
        prefitted ==
            fitted_keys \cup (IF a.fitted_propensity_model # "None"
                              THEN {PROPENSITY_MODEL} ELSE {})
        not_fitted == nuisance_model_names \ prefitted
        new == NewRLearner(a.is_classification, LearnerFolds)
        models == [k \in ModelKinds |->
                     IF k = PROPENSITY_MODEL /\ a.fitted_propensity_model # "None"
                     THEN PrefittedEstimator(a.fitted_propensity_model)
                     ELSE IF k \in fitted_keys
                     THEN PrefittedEstimator(a.fitted_nuisance_models[k])
                     ELSE new.models[k]]
        invalid == validate_models(a.is_classification, nuisance_model_factory,
                                   treatment_model_factory,
                                   a.fit_has_sample_weight)
        Rejected(e) == [err |-> e, learner |-> NoLearner]
    IN  IF /\ a.propensity_model_factory = "None"
           /\ a.fitted_propensity_model = "None"
        THEN Rejected("ValueError")
        ELSE IF validate_n_variants(a.n_variants_is_int, a.n_variants) # ""
        THEN Rejected(validate_n_variants(a.n_variants_is_int, a.n_variants))
        ELSE IF ~(fitted_keys \subseteq nuisance_model_names)
        THEN Rejected("ValueError")
        ELSE IF \E name \in not_fitted : nuisance_model_factory[name] = "None"
        THEN Rejected("ValueError")
        ELSE IF invalid # "" THEN Rejected(invalid)
        ELSE [err     |-> "",
              learner |-> [new EXCEPT !.n_variants = a.n_variants,
                                      !.prefitted = prefitted,
                                      !.models = models]]

\* A _validate_treatment that only counts the distinct values.
validate_treatment_raises_CountOnly(n_variants, w) ==
    Cardinality({w[i] : i \in DOMAIN w}) # n_variants

\* _validate_treatment: TRUE iff it raises for the treatment vector w.
validate_treatment_raises(n_variants, w) ==
    LET unique == {w[i] : i \in DOMAIN w}
    IN  \/ Cardinality(unique) # n_variants
        \/ unique # 0..(n_variants - 1)

\* _validate_outcome: TRUE iff it raises for the outcome vector y
\* (_supports_multi_class is False for the RLearner).
validate_outcome_raises(is_classification, y) ==
    /\ is_classification
    /\ ~supports_multi_class
    /\ Cardinality({y[i] : i \in DOMAIN y}) > 2

\* The shuffle drawn for a slot's folds when the learner fits it: the rows in
\* order.  (Every shuffle is drawn where a single estimator is fitted, in
\* Fit; what the learner does with a slot does not depend on the shuffle.)
LearnerShuffles(n) ==
    {[p \in 1..n |-> p - 1]}

\* A fit_nuisance that fits the slot also when it was handed in pre-fitted.
fit_slot_RefitsPrefitted(l, model_kind, n, perm, ok, ncls, overall_ok) ==
    LET res == fit(l.models[model_kind], n, perm, ok, ncls, overall_ok,
                   MaxOf({ncls[f] : f \in DOMAIN ncls} \cup {0}))
    IN  [learner |-> [l EXCEPT !.models[model_kind] = res.cfe],
         err     |-> res.err]

\* fit_nuisance / fit_treatment of slot model_kind: [learner, err].
\* A pre-fitted nuisance slot is skipped.
fit_slot(l, model_kind, n, perm, ok, ncls, overall_ok) ==
    IF model_kind \in nuisance_model_names /\ model_kind \in l.prefitted
    THEN [learner |-> l, err |-> ""]
    ELSE LET res == fit(l.models[model_kind], n, perm, ok, ncls, overall_ok,
                        MaxOf({ncls[f] : f \in DOMAIN ncls} \cup {0}))
         IN  [learner |-> [l EXCEPT !.models[model_kind] = res.cfe],
              err     |-> res.err]

\* predict_nuisance: the slot's predict method on the n-row X.
predict_nuisance(l, model_kind, n, is_oos, oos_method) ==
    predict(l.models[model_kind], n, is_oos,
            predict_method(l.is_classification, model_kind), oos_method)

\* predict_treatment: CrossFitEstimator.predict of the treatment slot.
predict_treatment(l, n, is_oos, oos_method) ==
    predict(l.models[TREATMENT_MODEL], n, is_oos, "predict", oos_method)

\* The column [:, 1] of a prediction: IndexError if a row has one column.
SecondColumnRaises(res) ==
    \E r \in DOMAIN res.value : 2 \notin DOMAIN res.value[r]

\* Numbers are fixed-point: One is the number 1 in model units, the unit of
\* the probabilities ModelPredictProba returns (percent).  The values of
\* ModelPredict are in the same units.
One == 100

\* A number a caller passes (an entry of y or w), in model units.
Fixed(v) == v * One

\* rlearner.py line 23: the default epsilon, the smallest positive amount of
\* the model.
EPSILON == 1

\* An epsilon added to every denominator whatever its sign.
epsilons_Unsigned(w_residuals, epsilon) ==
    [i \in DOMAIN w_residuals |-> epsilon]

\* epsilons = np.where(w_residuals < 0, -1, 1) * epsilon
epsilons(w_residuals, epsilon) ==
    [i \in DOMAIN w_residuals |->
        (IF w_residuals[i] < 0 THEN -1 ELSE 1) * epsilon]

\* pseudo_outcomes = y_residuals / (w_residuals + epsilons), each quotient
\* kept as <<numerator, denominator>> (numpy divides by a zero denominator
\* without raising: the quotient is then inf or nan).  w_residuals has one
\* axis; y_residuals has one axis (ndim = 1: entry j is divided by
\* denominator j) or two (ndim = 2: numpy aligns the last axis, entry [i][j]
\* is divided by denominator j).
pseudo_outcomes(y_residuals, ndim, w_residuals, epsilon) ==
    LET denominators ==
            [j \in DOMAIN w_residuals |->
                w_residuals[j] + epsilons(w_residuals, epsilon)[j]]
    IN  IF ndim = 1
        THEN [j \in DOMAIN w_residuals |-> <<y_residuals[j], denominators[j]>>]
        ELSE [i \in DOMAIN y_residuals |->
                [j \in DOMAIN w_residuals |->
                    <<y_residuals[i][j], denominators[j]>>]]

\* weights = np.square(w_residuals)
weights(w_residuals) ==
    [i \in DOMAIN w_residuals |-> w_residuals[i] * w_residuals[i]]

\* The exception _pseudo_outcome_and_weights leaves with ("" if it returns):
\* it reads the in-sample predictions of the outcome slot, then of the
\* propensity slot, and takes column 1 of the probabilities.
pseudo_outcome_and_weights_raises(l, n) ==
    LET y_estimates == predict_nuisance(l, OUTCOME_MODEL, n, FALSE, "overall")
        w_estimates == predict_nuisance(l, PROPENSITY_MODEL, n, FALSE, "overall")
    IN  IF y_estimates.err # "" THEN y_estimates.err
        ELSE IF l.is_classification /\ SecondColumnRaises(y_estimates)
        THEN "IndexError"
        ELSE IF w_estimates.err # "" THEN w_estimates.err
        ELSE IF SecondColumnRaises(w_estimates) THEN "IndexError"
        ELSE ""

\* Lines 252-271 of _pseudo_outcome_and_weights on the predictions read, y
\* and w being numpy arrays of one axis and oos telling that the predictions
\* are the overall models' own (then a regression y_estimates has one axis).
\* In-sample predictions have the shape (n, n_outputs) of predictions[:, :, 0]:
\*   classification: y_estimates[:, 1] has one axis, and so has y_residuals;
\*   regression: y - y_estimates is an (n,) array minus an (n, 1) array,
\*     which numpy broadcasts to (n, n): entry [i][j] is y[j] - y_estimates[i].
\* w_residuals always has one axis.  The result holds the predictions read
\* with the arrays returned.
pseudo_outcome_arrays(is_classification, oos, n, y, w, epsilon, y_estimates, w_estimates) ==
    LET ndim        == IF is_classification \/ oos THEN 1 ELSE 2
        y_residuals == IF is_classification
                       THEN [j \in Rows(n) |->
                                Fixed(y[j]) - y_estimates.value[j][2]]
                       ELSE IF oos
                       THEN [j \in Rows(n) |-> Fixed(y[j]) - y_estimates.value[j]]
                       ELSE [i \in Rows(n) |->
                                [j \in Rows(n) |->
                                    Fixed(y[j]) - y_estimates.value[i][1]]]
        w_residuals == [j \in Rows(n) |-> Fixed(w[j]) - w_estimates.value[j][2]]
    IN  [err             |-> "",
         y_estimates     |-> y_estimates,
         w_estimates     |-> w_estimates,
         ndim            |-> ndim,
         pseudo_outcomes |-> pseudo_outcomes(y_residuals, ndim,
                                             w_residuals, epsilon),
         weights         |-> weights(w_residuals)]

\* _pseudo_outcome_and_weights(X, y, w, epsilon) with the predictions taken
\* out of sample from the overall models.
pseudo_outcome_and_weights_OutOfSample(l, n, y, w, epsilon) ==
    IF pseudo_outcome_and_weights_raises(l, n) # ""
    THEN [err |-> pseudo_outcome_and_weights_raises(l, n)]
    ELSE pseudo_outcome_arrays(
            l.is_classification, TRUE, n, y, w, epsilon,
            predict_nuisance(l, OUTCOME_MODEL, n, TRUE, "overall"),
            predict_nuisance(l, PROPENSITY_MODEL, n, TRUE, "overall"))

\* _pseudo_outcome_and_weights(X, y, w, epsilon) on the n-row X of fit: both
\* predictions are taken with is_oos=False.
pseudo_outcome_and_weights(l, n, y, w, epsilon) ==
    IF pseudo_outcome_and_weights_raises(l, n) # ""
    THEN [err |-> pseudo_outcome_and_weights_raises(l, n)]
    ELSE pseudo_outcome_arrays(
            l.is_classification, FALSE, n, y, w, epsilon,
            predict_nuisance(l, OUTCOME_MODEL, n, FALSE, "overall"),
            predict_nuisance(l, PROPENSITY_MODEL, n, FALSE, "overall"))

\* np.stack([-estimates, estimates], axis=-1) on one entry of estimates:
\* a number, or a mean/median fraction.
StackNegated(oos_aggregated, e) ==
    IF oos_aggregated THEN << <<0 - e[1], e[2]>>, e >> ELSE <<0 - e, e>>

\* RLearner.predict on the n-row X.
rl_predict(l, n, is_oos, oos_method) ==
    LET estimates == predict_treatment(l, n, is_oos, oos_method)
        aggregated == is_oos /\ oos_method \in {"mean", "median"}
    IN  IF estimates.err # "" \/ ~l.is_classification THEN estimates
        ELSE IF is_oos /\ oos_method = "overall"
        THEN [estimates EXCEPT !.value =
                [r \in DOMAIN estimates.value |->
                    StackNegated(FALSE, estimates.value[r])]]
        ELSE [estimates EXCEPT !.value =
                [r \in DOMAIN estimates.value |->
                    [j \in DOMAIN estimates.value[r] |->
                        StackNegated(aggregated, estimates.value[r][j])]]]

\* The shape of the array RLearner.predict returns: that of the treatment
\* slot's prediction, with a last axis of length 2 added by
\* np.stack([-estimates, estimates], axis=-1) for a classification outcome.
rl_predict_shape(l, n, is_oos, oos_method) ==
    LET estimates_shape ==
            predict_shape(l.models[TREATMENT_MODEL], n, is_oos, "predict",
                          oos_method)
    IN  IF l.is_classification THEN Append(estimates_shape, 2)
        ELSE estimates_shape

\* Lines 206-237 of evaluate on the three predictions read, in the order of
\* the code, then the metrics (log_loss, root_mean_squared_error, r_loss),
\* which raise or return as the library decides (metrics_ok): the exception
\* evaluate leaves with, "" if it returns.
evaluate_raises(is_classification, w_hat, y_hat, tau_hat, metrics_ok) ==
    IF w_hat.err # "" THEN w_hat.err
    ELSE IF SecondColumnRaises(w_hat) THEN "IndexError"
    ELSE IF y_hat.err # "" THEN y_hat.err
    ELSE IF is_classification /\ SecondColumnRaises(y_hat) THEN "IndexError"
    ELSE IF tau_hat.err # "" THEN tau_hat.err
    ELSE IF ~metrics_ok THEN "ValueError"
    ELSE ""

\* The result of evaluate: a call that returns has passed w_hat[:, 1] and
\* y_hat (y_hat[:, 1] for a classification outcome) to r_loss, which takes
\* the residuals from them.
evaluate_result(err, w_hat, y_hat) ==
    [err       |-> err,
     value     |-> NoArray,
     consulted |-> {},
     writers   |-> NoArray,
     w_hat     |-> IF err = "" THEN w_hat ELSE Raise(err, {}),
     y_hat     |-> IF err = "" THEN y_hat ELSE Raise(err, {})]

\* RLearner.evaluate on the n-row X.
rl_evaluate(l, n, is_oos, oos_method, metrics_ok) ==
    evaluate_result(
        evaluate_raises(l.is_classification,
                        predict_nuisance(l, PROPENSITY_MODEL, n, is_oos, oos_method),
                        predict_nuisance(l, OUTCOME_MODEL, n, is_oos, oos_method),
                        predict_treatment(l, n, is_oos, oos_method),
                        metrics_ok),
        predict_nuisance(l, PROPENSITY_MODEL, n, is_oos, oos_method),
        predict_nuisance(l, OUTCOME_MODEL, n, is_oos, oos_method))

\* The call learner.fit(X, y, w) on the rows of w: running or, with op "fit",
\* left with the exception err ("" if it returned).
RLFitCall(op, y, w, err) ==
    [op |-> op, rows |-> Cardinality(DOMAIN w), y |-> y, w |-> w, err |-> err]

\* Largest number of distinct values in an outcome vector a caller passes.
MaxClasses == 3

\* The outcome vectors a caller passes on n rows: one with k distinct values
\* (row i holds i mod k) for every k up to MaxClasses.
OutcomeVectors(n) ==
    {[i \in Rows(n) |-> i % k] : k \in 1..MaxClasses}

\* The treatment values a caller passes.
TreatmentValues == 0..(MaxVariants - 1)

InitRL ==
    /\ cfe = NewCrossFitEstimator(LearnerFolds, FALSE, TRUE)
    /\ fit_rows = 0
    /\ fit_completed = FALSE
    /\ last = NoCall
    /\ learner = NoLearner
    /\ rl_pc = "idle"
    /\ rl_last = NoCall

\* The pre-fitted nuisance estimators a caller passes in
\* fitted_nuisance_models: none, or one under a slot name.
FittedNuisanceModels ==
    {[k \in {} |-> "None"]}
    \cup UNION {[{k} -> Factories \ {"None"}] :
                  k \in nuisance_model_names \cup {VARIANT_OUTCOME_MODEL}}

\* The constructor arguments drawn.  A n_variants that is not an int is the
\* float 2.0; fit_has_sample_weight is read only of a treatment factory.
InitArgs ==
    {a \in [is_classification        : BOOLEAN,
            n_variants               : 1..MaxVariants,
            n_variants_is_int        : BOOLEAN,
            nuisance_model_factory   : Factories,
            treatment_model_factory  : Factories,
            fit_has_sample_weight    : BOOLEAN,
            propensity_model_factory : Factories,
            fitted_propensity_model  : Factories,
            fitted_nuisance_models   : FittedNuisanceModels] :
        /\ ~a.n_variants_is_int => a.n_variants = 2
        /\ a.treatment_model_factory = "None" => a.fit_has_sample_weight}

\* learner = RLearner(**a): on an exception no learner exists.
RLConstruct ==
    /\ ~learner.constructed
    /\ rl_pc = "idle" /\ rl_last.op = "idle"
    /\ \E a \in InitArgs :
          LET res == metalearner_init(a)
          IN  /\ learner' = res.learner
              /\ rl_last' = [op |-> "init", err |-> res.err, args |-> a]
    /\ UNCHANGED <<cfe, fit_rows, fit_completed, last, rl_pc>>

\* learner.fit(X, y, w) is called on MaxObs rows: _check_treatment(w).
RLFitCheckTreatment ==
    /\ learner.constructed
    /\ rl_pc = "idle" /\ rl_last.op = "idle"
    /\ \E w \in [Rows(MaxObs) -> TreatmentValues], y \in OutcomeVectors(MaxObs) :
          IF validate_treatment_raises(learner.n_variants, w)
          THEN /\ rl_last' = RLFitCall("fit", y, w, "ValueError")
               /\ rl_pc' = "idle"
          ELSE /\ rl_last' = RLFitCall("fit_running", y, w, "")
               /\ rl_pc' = "check_outcome"
    /\ UNCHANGED <<cfe, fit_rows, fit_completed, last, learner>>

\* _check_outcome(y)
RLFitCheckOutcome ==
    /\ rl_pc = "check_outcome"
    /\ IF validate_outcome_raises(learner.is_classification, rl_last.y)
       THEN /\ rl_last' = RLFitCall("fit", rl_last.y, rl_last.w, "ValueError")
            /\ rl_pc' = "idle"
       ELSE /\ rl_last' = rl_last
            /\ rl_pc' = "propensity_model"
    /\ UNCHANGED <<cfe, fit_rows, fit_completed, last, learner>>

\* The statement of fit after the slot model_kind has been fitted.
NextStatement(model_kind) ==
    IF model_kind = PROPENSITY_MODEL THEN "outcome_model"
    ELSE IF model_kind = OUTCOME_MODEL THEN "pseudo_outcome"
    ELSE "idle"

\* fit_nuisance(model_kind) resp. fit_treatment(model_kind); an exception of
\* the slot's fit leaves RLearner.fit.
FitSlot(model_kind) ==
    /\ rl_pc = model_kind
    /\ \E perm \in LearnerShuffles(rl_last.rows) :
       \E failed \in FailurePatterns(learner.models[model_kind].n_folds) :
       \E ncls \in ClassPatterns(learner.models[model_kind].is_clf,
                                 learner.models[model_kind].n_folds, {2}) :
       \E overall_ok \in BOOLEAN :
        LET c   == learner.models[model_kind]
            ok  == [f \in 1..c.n_folds |-> f \notin failed]
            res == fit_slot(learner, model_kind, rl_last.rows, perm, ok, ncls,
                            overall_ok)
        IN  /\ learner' = res.learner
            /\ IF res.err # ""
               THEN /\ rl_last' = RLFitCall("fit", rl_last.y, rl_last.w, res.err)
                    /\ rl_pc' = "idle"
               ELSE /\ rl_last' = IF NextStatement(model_kind) = "idle"
                                  THEN RLFitCall("fit", rl_last.y, rl_last.w, "")
                                  ELSE rl_last
                    /\ rl_pc' = NextStatement(model_kind)
    /\ UNCHANGED <<cfe, fit_rows, fit_completed, last>>

\* fit_nuisance(X, w, PROPENSITY_MODEL)
RLFitPropensity ==
    /\ rl_pc = PROPENSITY_MODEL
    /\ FitSlot(PROPENSITY_MODEL)

\* fit_nuisance(X, y, OUTCOME_MODEL)
RLFitOutcome ==
    /\ rl_pc = OUTCOME_MODEL
    /\ FitSlot(OUTCOME_MODEL)

\* pseudo_outcomes, weights = _pseudo_outcome_and_weights(X, w, y, epsilon),
\* fit having been called with the default epsilon: the call record holds
\* the arrays fit is about to pass to fit_treatment.
RLFitPseudoOutcome ==
    /\ rl_pc = "pseudo_outcome"
    /\ LET res == pseudo_outcome_and_weights(learner, rl_last.rows, rl_last.y,
                                             rl_last.w, EPSILON)
       IN  IF res.err # ""
           THEN /\ rl_last' = RLFitCall("fit", rl_last.y, rl_last.w, res.err)
                /\ rl_pc' = "idle"
           ELSE /\ rl_last' = [op              |-> rl_last.op,
                               rows            |-> rl_last.rows,
                               y               |-> rl_last.y,
                               w               |-> rl_last.w,
                               err             |-> "",
                               y_estimates     |-> res.y_estimates,
                               w_estimates     |-> res.w_estimates,
                               ndim            |-> res.ndim,
                               pseudo_outcomes |-> res.pseudo_outcomes,
                               weights         |-> res.weights]
                /\ rl_pc' = "treatment_model"
    /\ UNCHANGED <<cfe, fit_rows, fit_completed, last, learner>>

\* fit_treatment(X, pseudo_outcomes, TREATMENT_MODEL, sample_weight=weights)
RLFitTreatment ==
    /\ rl_pc = TREATMENT_MODEL
    /\ FitSlot(TREATMENT_MODEL)

\* learner.predict(X, is_oos, oos_method) on n rows.
RLPredict ==
    /\ learner.constructed
    /\ rl_pc = "idle" /\ rl_last.op = "idle"
    /\ \E n \in 1..MaxObs, a \in PredictArgs :
          LET res == rl_predict(learner, n, a[1], a[2])
          IN  rl_last' = [op         |-> "predict",
                          rows       |-> n,
                          is_oos     |-> a[1],
                          oos_method |-> a[2],
                          err        |-> res.err,
                          value      |-> res.value,
                          shape      |-> IF res.err # "" THEN <<>>
                                         ELSE rl_predict_shape(learner, n,
                                                               a[1], a[2])]
    /\ UNCHANGED <<cfe, fit_rows, fit_completed, last, learner, rl_pc>>

\* learner.evaluate(X, y, w, is_oos, oos_method) on n rows.
RLEvaluate ==
    /\ learner.constructed
    /\ rl_pc = "idle" /\ rl_last.op = "idle"
    /\ \E n \in 1..MaxObs, a \in PredictArgs, metrics_ok \in BOOLEAN :
          LET res == rl_evaluate(learner, n, a[1], a[2], metrics_ok)
          IN  rl_last' = [op         |-> "evaluate",
                          rows       |-> n,
                          is_oos     |-> a[1],
                          oos_method |-> a[2],
                          err        |-> res.err,
                          w_hat      |-> res.w_hat,
                          y_hat      |-> res.y_hat]
    /\ UNCHANGED <<cfe, fit_rows, fit_completed, last, learner, rl_pc>>

\* The result of a predict_nuisance / predict_treatment call on slot
\* model_kind.
SlotCall(op, model_kind, n, is_oos, oos_method, res) ==
    [op         |-> op,
     model_kind |-> model_kind,
     rows       |-> n,
     is_oos     |-> is_oos,
     oos_method |-> oos_method,
     err        |-> res.err,
     value      |-> res.value]

\* learner.predict_nuisance(X, model_kind, is_oos, oos_method) on n rows.
RLPredictNuisance ==
    /\ learner.constructed
    /\ rl_pc = "idle" /\ rl_last.op = "idle"
    /\ \E n \in 1..MaxObs, a \in PredictArgs, k \in nuisance_model_names :
          rl_last' = SlotCall("predict_nuisance", k, n, a[1], a[2],
                              predict_nuisance(learner, k, n, a[1], a[2]))
    /\ UNCHANGED <<cfe, fit_rows, fit_completed, last, learner, rl_pc>>

\* A predict_treatment that keeps the treatment slot's overall model only
\* until the first 'overall' prediction has used it.
RLPredictTreatment_ReleasesOverall ==
    /\ learner.constructed
    /\ rl_pc = "idle" /\ rl_last.op = "idle"
    /\ \E n \in 1..MaxObs, a \in PredictArgs :
          /\ rl_last' = SlotCall("predict_treatment", TREATMENT_MODEL, n, a[1],
                                 a[2], predict_treatment(learner, n, a[1], a[2]))
          /\ learner' = IF a[1] /\ a[2] = "overall"
                        THEN [learner EXCEPT
                                !.models[TREATMENT_MODEL].has_overall = FALSE,
                                !.models[TREATMENT_MODEL].overall_estimator = NoModel]
                        ELSE learner
    /\ UNCHANGED <<cfe, fit_rows, fit_completed, last, rl_pc>>

\* learner.predict_treatment(X, TREATMENT_MODEL, is_oos, oos_method) on n rows.
RLPredictTreatment ==
    /\ learner.constructed
    /\ rl_pc = "idle" /\ rl_last.op = "idle"
    /\ \E n \in 1..MaxObs, a \in PredictArgs :
          rl_last' = SlotCall("predict_treatment", TREATMENT_MODEL, n, a[1],
                              a[2], predict_treatment(learner, n, a[1], a[2]))
    /\ UNCHANGED <<cfe, fit_rows, fit_completed, last, learner, rl_pc>>

\* The caller takes the result of its call on the learner.
RLResume ==
    /\ rl_pc = "idle" /\ rl_last.op # "idle"
    /\ rl_last' = NoCall
    /\ UNCHANGED <<cfe, fit_rows, fit_completed, last, learner, rl_pc>>

NextRL ==
    \/ RLConstruct
    \/ RLFitCheckTreatment
    \/ RLFitCheckOutcome
    \/ RLFitPropensity
    \/ RLFitOutcome
    \/ RLFitPseudoOutcome
    \/ RLFitTreatment
    \/ RLPredict
    \/ RLEvaluate
    \/ RLPredictNuisance
    \/ RLPredictTreatment
    \/ RLResume

SpecRL == InitRL /\ [][NextRL]_vars

(***************************************************************************)
(* Properties of the R-Learner                                             *)
(***************************************************************************)

SlotFitted(model_kind) ==
    learner.constructed /\ learner.models[model_kind].has_estimators

\* C10: between calls the learner never has some of the slots that fit is to
\* fit (those not handed in pre-fitted) fitted and others not: a fit that
\* fails in one slot leaves no slot fitted by that call.
C10_FitAllSlotsOrNone ==
    (learner.constructed /\ rl_pc = "idle") =>
        \/ \A k \in ModelKinds \ learner.prefitted : SlotFitted(k)
        \/ \A k \in ModelKinds \ learner.prefitted : ~SlotFitted(k)

\* fit assigns overall_estimator in its last statement and the learner leaves
\* enable_overall at True: the attribute is there iff a call of fit on the
\* slot's estimator has returned.
FitReturned(model_kind) ==
    learner.constructed /\ learner.models[model_kind].has_overall

\* C11: within fit the treatment slot's fit starts only after the fits of
\* both nuisance slots have returned, and a predict or evaluate that returns
\* finds a learner whose treatment slot's fit has returned.
C11_UnfitNuisanceTreatmentReady ==
    /\ rl_pc = TREATMENT_MODEL =>
            FitReturned(PROPENSITY_MODEL) /\ FitReturned(OUTCOME_MODEL)
    /\ (rl_last.op \in {"predict", "evaluate"} /\ rl_last.err = "") =>
            FitReturned(TREATMENT_MODEL)

\* C12: no step changes the CrossFitEstimator of a slot that was handed to
\* the constructor pre-fitted, whatever calls of fit are made.
C12_PrefittedNeverRetrained ==
    [][learner.constructed =>
          \A k \in learner.prefitted : learner'.models[k] = learner.models[k]]_vars

\* A fit has returned on a learner whose propensity slot was handed in
\* pre-fitted: the outcome and treatment slots were fitted by the call, the
\* propensity slot still holds the estimator it was given.
C12_Witness ==
    /\ learner.constructed
    /\ learner.prefitted = {PROPENSITY_MODEL}
    /\ rl_last.op = "fit" /\ rl_last.err = ""
    /\ SlotFitted(OUTCOME_MODEL) /\ SlotFitted(TREATMENT_MODEL)
    /\ learner.models[PROPENSITY_MODEL] = PrefittedEstimator("classifier")

\* C13: a call of fit whose treatment vector does not hold exactly the
\* values 0..n_variants-1 is left with a ValueError by its first statement,
\* with the learner as it was: no model has been trained.
C13_BadTreatmentRejectedFirst ==
    [][(/\ rl_pc = "idle"
        /\ rl_last'.op \in {"fit", "fit_running"}
        /\ {rl_last'.w[i] : i \in DOMAIN rl_last'.w}
               # 0..(learner.n_variants - 1))
       => /\ rl_last'.op = "fit" /\ rl_last'.err = "ValueError"
          /\ rl_pc' = "idle"
          /\ learner' = learner]_vars

\* fit was called with a treatment vector that holds only the value 1 and
\* raised; no slot of the learner is fitted.
C13_Witness ==
    /\ learner.constructed /\ learner.prefitted = {}
    /\ rl_last.op = "fit" /\ rl_last.err = "ValueError"
    /\ \A i \in DOMAIN rl_last.w : rl_last.w[i] = 1
    /\ \A k \in ModelKinds : ~SlotFitted(k)

\* C14: a constructor call whose n_variants is not the int 2 raises and
\* leaves no learner, and a fit on a classification learner whose outcome
\* vector holds more than 2 distinct values raises ValueError: it never gets
\* past the outcome check.
C14_TwoVariantsTwoClasses ==
    /\ (/\ rl_last.op = "init"
        /\ ~(rl_last.args.n_variants_is_int /\ rl_last.args.n_variants = 2))
       => rl_last.err # "" /\ ~learner.constructed
    /\ (/\ rl_last.op \in {"fit", "fit_running"}
        /\ rl_pc # "check_outcome"
        /\ learner.is_classification
        /\ Cardinality({rl_last.y[i] : i \in DOMAIN rl_last.y}) > 2)
       => rl_last.op = "fit" /\ rl_last.err = "ValueError"

\* fit on a classification learner was called with a valid treatment vector
\* and an outcome vector of 3 distinct values, and raised; no slot is fitted.
C14_Witness ==
    /\ learner.constructed /\ learner.is_classification
    /\ learner.prefitted = {}
    /\ rl_last.op = "fit" /\ rl_last.err = "ValueError"
    /\ ~validate_treatment_raises(learner.n_variants, rl_last.w)
    /\ Cardinality({rl_last.y[i] : i \in DOMAIN rl_last.y}) = 3
    /\ \A k \in ModelKinds : ~SlotFitted(k)

\* The two class entries of every row of a returned classification
\* prediction are negations of each other.  An entry is a number or, for
\* 'mean' and 'median', a fraction <<numerator, denominator>>.
ClassEntriesNegated ==
    LET aggregated == rl_last.is_oos /\ rl_last.oos_method \in {"mean", "median"}
        Negated(pair) ==
            IF aggregated
            THEN pair[1][1] = 0 - pair[2][1] /\ pair[1][2] = pair[2][2]
            ELSE pair[1] = 0 - pair[2]
    IN  \A r \in DOMAIN rl_last.value :
            IF Len(rl_last.shape) = 3
            THEN \A j \in DOMAIN rl_last.value[r] : Negated(rl_last.value[r][j])
            ELSE Negated(rl_last.value[r])

\* C15: a predict of the learner that returns gives an array of shape
\* (N, 1, 1) for a regression outcome and (N, 1, 2), with rows [-tau, tau],
\* for a classification outcome, in sample and for every oos_method.
C15_PredictShape ==
    (rl_last.op = "predict" /\ rl_last.err = "") =>
        /\ rl_last.shape =
               <<rl_last.rows, 1, IF learner.is_classification THEN 2 ELSE 1>>
        /\ learner.is_classification => ClassEntriesNegated

\* The slot named k is given a pre-fitted estimator by the arguments a.
HasPrefitted(a, k) ==
    \/ k \in DOMAIN a.fitted_nuisance_models
    \/ k = PROPENSITY_MODEL /\ a.fitted_propensity_model # "None"

\* The factory the arguments a give for the slot named k.
FactoryGiven(a, k) ==
    IF k = PROPENSITY_MODEL THEN a.propensity_model_factory
    ELSE IF k = OUTCOME_MODEL THEN a.nuisance_model_factory
    ELSE a.treatment_model_factory

\* The kind of model the slot named k needs.
FactoryNeeded(a, k) ==
    IF KindIsClassifier(a.is_classification, k) THEN "classifier"
    ELSE "regressor"

\* Arguments with nothing wrong but, possibly, slots left without a model:
\* n_variants is the int 2, pre-fitted estimators are given under slot names
\* of the learner, and every factory and pre-fitted estimator given is of
\* the kind its slot needs.
ValidButForMissingModels(a) ==
    /\ a.n_variants_is_int /\ a.n_variants = 2
    /\ DOMAIN a.fitted_nuisance_models \subseteq nuisance_model_names
    /\ a.fit_has_sample_weight
    /\ \A k \in ModelKinds : FactoryGiven(a, k) \in {"None", FactoryNeeded(a, k)}
    /\ a.fitted_propensity_model \in {"None", "classifier"}
    /\ \A k \in DOMAIN a.fitted_nuisance_models :
           a.fitted_nuisance_models[k] = FactoryNeeded(a, k)

\* C16: the constructor raises, with a ValueError, exactly when some slot is
\* given neither a factory nor a pre-fitted estimator; in particular a slot
\* given a pre-fitted estimator and no factory is accepted.
C16_RejectedIffSlotWithoutModel ==
    (rl_last.op = "init" /\ ValidButForMissingModels(rl_last.args)) =>
        /\ rl_last.err \in {"", "ValueError"}
        /\ rl_last.err # "" <=>
               \E k \in ModelKinds :
                   /\ FactoryGiven(rl_last.args, k) = "None"
                   /\ ~HasPrefitted(rl_last.args, k)

\* What the check of the slot named k is to be made on: the factory of the
\* pre-fitted estimator if the arguments a give one, else the factory given.
SlotModel(a, k) ==
    IF k = PROPENSITY_MODEL /\ a.fitted_propensity_model # "None"
    THEN a.fitted_propensity_model
    ELSE IF k \in DOMAIN a.fitted_nuisance_models
    THEN a.fitted_nuisance_models[k]
    ELSE FactoryGiven(a, k)

\* C17: a constructor call that returns has, for every slot, a model of the
\* kind the slot's predict method needs (a classifier for predict_proba, a
\* regressor for predict), the model of a pre-fitted slot being the factory
\* of its pre-fitted estimator.
C17_PredictMethodMatchesModel ==
    (rl_last.op = "init" /\ rl_last.err = "") =>
        \A k \in ModelKinds :
            SlotModel(rl_last.args, k) = FactoryNeeded(rl_last.args, k)

\* The calls on the learner that predict.
LearnerPredictionOps ==
    {"predict", "evaluate", "predict_nuisance", "predict_treatment"}

\* C21: a call of predict_nuisance, predict_treatment, RLearner.predict or
\* RLearner.evaluate (and through them predict and predict_proba of each
\* slot's CrossFitEstimator), made in any order after any others, leaves
\* every slot of the learner as it was: its fold models, its overall model
\* and its held-out index sets.
C21_PredictionReadOnly ==
    [][(rl_last.op = "idle" /\ rl_last'.op \in LearnerPredictionOps)
          => learner' = learner]_vars

\* An out-of-sample 'overall' predict_treatment has returned values from a
\* learner whose fit returned, all three slots holding their overall model.
C21_Witness ==
    /\ rl_last.op = "predict_treatment" /\ rl_last.err = ""
    /\ rl_last.is_oos /\ rl_last.oos_method = "overall"
    /\ \A k \in ModelKinds : FitReturned(k)

\* The column of slot k's predictions the learner reads: [:, 1] of the
\* probabilities, the single column of predict.
ReadColumn(k) ==
    IF predict_method(learner.is_classification, k) = "predict_proba" THEN 2
    ELSE 1

\* What fold model f of slot k gives for row r in the column read.
SlotFoldOutput(k, f, r) ==
    ModelOutputs(learner.models[k].estimators[f],
                 predict_method(learner.is_classification, k), r)[ReadColumn(k)]

\* The in-sample prediction of slot k for row r: that of the one fold model
\* whose held-out index set holds r.
InSamplePrediction(k, r) ==
    SlotFoldOutput(k,
                   CHOOSE f \in 1..Len(learner.models[k].test_indices) :
                       r \in learner.models[k].test_indices[f],
                   r)

\* The out-of-sample 'overall' prediction of slot k for row r.
OverallPrediction(k, r) ==
    ModelOutputs(learner.models[k].overall_estimator,
                 predict_method(learner.is_classification, k), r)[ReadColumn(k)]

\* w - e(X) of row j with the in-sample propensity.
InSampleWResidual(j) ==
    Fixed(rl_last.w[j]) - InSamplePrediction(PROPENSITY_MODEL, j)

\* The stabilised denominator of row j with the in-sample propensity.
InSampleDenominator(j) ==
    InSampleWResidual(j)
        + (IF InSampleWResidual(j) < 0 THEN 0 - EPSILON ELSE EPSILON)

\* The nuisance predictions p that evaluate read of slot k are those of the
\* requested is_oos / oos_method.
AtRequestedMode(k, p) ==
    LET c == learner.models[k]
    IN  IF ~rl_last.is_oos
        THEN /\ 0 \notin p.consulted
             /\ \A r \in Rows(rl_last.rows) :
                    p.value[r][ReadColumn(k)] = InSamplePrediction(k, r)
        ELSE IF rl_last.oos_method = "overall"
        THEN /\ p.consulted = {0}
             /\ \A r \in Rows(rl_last.rows) :
                    (IF ReadColumn(k) = 2 THEN p.value[r][2] ELSE p.value[r])
                        = OverallPrediction(k, r)
        ELSE /\ p.consulted = 1..Len(c.estimators)
             /\ \A r \in Rows(rl_last.rows) :
                    LET v == [f \in 1..Len(c.estimators) |->
                                SlotFoldOutput(k, f, r)]
                    IN  IF rl_last.oos_method = "mean"
                        THEN IsMeanOf(p.value[r][ReadColumn(k)], v)
                        ELSE IsMedianOf(p.value[r][ReadColumn(k)], v)

\* C24: when fit reaches fit_treatment, every quotient of the pseudo-outcome
\* it passes is an entry of y minus an in-sample prediction of the outcome
\* slot, over an entry of w minus the in-sample prediction of the propensity
\* slot for the same row (epsilon added), every weight is the square of that
\* w-residual, and no overall model was asked; an evaluate that returns has
\* read the predictions of both nuisance slots at its own is_oos and
\* oos_method.
C24_PseudoOutcomeInSample ==
    /\ rl_pc = TREATMENT_MODEL =>
          /\ 0 \notin rl_last.y_estimates.consulted
          /\ 0 \notin rl_last.w_estimates.consulted
          /\ \A j \in Rows(rl_last.rows) :
                /\ rl_last.weights[j] = InSampleWResidual(j) * InSampleWResidual(j)
                /\ IF rl_last.ndim = 1
                   THEN rl_last.pseudo_outcomes[j] =
                            <<Fixed(rl_last.y[j])
                                  - InSamplePrediction(OUTCOME_MODEL, j),
                              InSampleDenominator(j)>>
                   ELSE \A i \in Rows(rl_last.rows) :
                            rl_last.pseudo_outcomes[i][j] =
                                <<Fixed(rl_last.y[j])
                                      - InSamplePrediction(OUTCOME_MODEL, i),
                                  InSampleDenominator(j)>>
    /\ (rl_last.op = "evaluate" /\ rl_last.err = "") =>
          /\ AtRequestedMode(PROPENSITY_MODEL, rl_last.w_hat)
          /\ AtRequestedMode(OUTCOME_MODEL, rl_last.y_hat)

\* fit has computed the pseudo-outcome of a classification outcome from
\* in-sample predictions that differ, for some row, from what the overall
\* models of the two nuisance slots predict for it.
C24_Witness ==
    /\ rl_pc = TREATMENT_MODEL /\ learner.is_classification
    /\ \E r \in Rows(rl_last.rows) :
          /\ InSamplePrediction(OUTCOME_MODEL, r) # OverallPrediction(OUTCOME_MODEL, r)
          /\ InSamplePrediction(PROPENSITY_MODEL, r)
                 # OverallPrediction(PROPENSITY_MODEL, r)
          /\ rl_last.pseudo_outcomes[r][1]
                 = Fixed(rl_last.y[r]) - InSamplePrediction(OUTCOME_MODEL, r)

(***************************************************************************)
(* Fit-parameter routing                                                   *)
(*                                                                         *)
(* A dict is a function from its keys; fit_params is [is_none, dict], with *)
(* the empty dict for None.                                                *)
(***************************************************************************)

NUISANCE == "nuisance"

TREATMENT == "treatment"

EmptyDict == [key \in {} |-> 0]

\* Largest value of a fit parameter a caller passes.
MaxParamValue == 2

\* The parameter sets a caller passes for one model: none, or sample_weight.
ParamSets == {EmptyDict} \cup [{"sample_weight"} -> 1..MaxParamValue]

\* What a caller passes under "nuisance" or "treatment": parameter sets
\* under some of the slot names (of either group).
GroupParams == UNION {[names -> ParamSets] : names \in SUBSET ModelKinds}

\* The fit_params drawn: None, a flat parameter set, or the nested form with
\* one or both of the keys "nuisance" and "treatment".
FitParams ==
    {[is_none |-> TRUE, dict |-> EmptyDict]}
    \cup {[is_none |-> FALSE, dict |-> d] : d \in ParamSets}
    \cup {[is_none |-> FALSE, dict |-> d] :
             d \in UNION {[groups -> GroupParams] :
                             groups \in (SUBSET {NUISANCE, TREATMENT}) \ {{}}}}

\* _get_result_skeleton with the same default value for every slot.
get_result_skeleton(default_value, nuisance_names, treatment_names) ==
    (NUISANCE :> [model_kind \in nuisance_names |-> default_value])
    @@ (TREATMENT :> [model_kind \in treatment_names |-> default_value])

\* A _parse_fit_params that also in the nested form starts from the raw
\* fit_params as every slot's default.
parse_fit_params_RawDefault(fit_params, nuisance_names, treatment_names) ==
    get_result_skeleton(fit_params.dict, nuisance_names, treatment_names)

\* _parse_fit_params
parse_fit_params(fit_params, nuisance_names, treatment_names) ==
    IF \/ fit_params.is_none
       \/ /\ NUISANCE \notin DOMAIN fit_params.dict
          /\ TREATMENT \notin DOMAIN fit_params.dict
    THEN get_result_skeleton(
             IF ~fit_params.is_none /\ DOMAIN fit_params.dict # {}
             THEN fit_params.dict ELSE EmptyDict,
             nuisance_names, treatment_names)
    ELSE LET Given(group, model_kind) ==
                 IF /\ group \in DOMAIN fit_params.dict
                    /\ model_kind \in DOMAIN fit_params.dict[group]
                 THEN fit_params.dict[group][model_kind]
                 ELSE EmptyDict
         IN  (NUISANCE :> [model_kind \in nuisance_names |->
                              Given(NUISANCE, model_kind)])
             @@ (TREATMENT :> [model_kind \in treatment_names |->
                                  Given(TREATMENT, model_kind)])

\* MetaLearner._qualified_fit_params of an RLearner
qualified_fit_params(fit_params) ==
    parse_fit_params(fit_params, nuisance_model_names, treatment_model_names)

InitParams ==
    /\ cfe = NewCrossFitEstimator(LearnerFolds, FALSE, TRUE)
    /\ fit_rows = 0
    /\ fit_completed = FALSE
    /\ last = NoCall
    /\ learner = NoLearner
    /\ rl_pc = "idle"
    /\ \E fit_params \in FitParams :
          rl_last = [op |-> "args", err |-> "", fit_params |-> fit_params]

\* self._qualified_fit_params(fit_params)
QualifiedFitParams ==
    /\ rl_last.op = "args"
    /\ rl_last' = [op         |-> "qualified_fit_params",
                   err        |-> "",
                   fit_params |-> rl_last.fit_params,
                   result     |-> qualified_fit_params(rl_last.fit_params)]
    /\ UNCHANGED <<cfe, fit_rows, fit_completed, last, learner, rl_pc>>

NextParams == QualifiedFitParams

SpecParams == InitParams /\ [][NextParams]_vars

\* The slots of a group.
GroupSlots(group) ==
    IF group = NUISANCE THEN nuisance_model_names ELSE treatment_model_names

\* C18: the routed parameters hold a set for every nuisance and treatment
\* slot: the empty set for every slot if fit_params is None or empty, the
\* flat set itself for every slot if it has neither the key "nuisance" nor
\* "treatment", and else the set named for the slot under its group, the
\* empty set if there is none.
C18_FitParamsRouted ==
    rl_last.op = "qualified_fit_params" =>
        LET given == rl_last.fit_params
            flat  == /\ NUISANCE \notin DOMAIN given.dict
                     /\ TREATMENT \notin DOMAIN given.dict
        IN  /\ DOMAIN rl_last.result = {NUISANCE, TREATMENT}
            /\ \A group \in {NUISANCE, TREATMENT} :
                /\ DOMAIN rl_last.result[group] = GroupSlots(group)
                /\ \A k \in GroupSlots(group) :
                    rl_last.result[group][k] =
                        IF given.is_none \/ DOMAIN given.dict = {}
                        THEN EmptyDict
                        ELSE IF flat THEN given.dict
                        ELSE IF group \notin DOMAIN given.dict THEN EmptyDict
                        ELSE IF k \notin DOMAIN given.dict[group] THEN EmptyDict
                        ELSE given.dict[group][k]

\* Nested parameters that name only the propensity slot, under "nuisance",
\* were routed: the propensity slot has its set, the outcome slot and the
\* treatment slot, whose group is absent, have the empty set.
C18_Witness ==
    /\ rl_last.op = "qualified_fit_params"
    /\ DOMAIN rl_last.fit_params.dict = {NUISANCE}
    /\ DOMAIN rl_last.fit_params.dict[NUISANCE] = {PROPENSITY_MODEL}
    /\ rl_last.result[NUISANCE][PROPENSITY_MODEL] # EmptyDict
    /\ rl_last.result[NUISANCE][OUTCOME_MODEL] = EmptyDict
    /\ rl_last.result[TREATMENT][TREATMENT_MODEL] = EmptyDict

(***************************************************************************)
(* Feature subsets                                                         *)
(*                                                                         *)
(* X is a numpy matrix: row r, column c (both from 0) holds the entry      *)
(* r * MaxCols + c, so that no two entries are equal.  A feature subset is *)
(* [is_none, columns]: None, or the list of column positions.              *)
(***************************************************************************)

\* Number of columns of X.
MaxCols == 2

Columns(n_cols) == 0..(n_cols - 1)

FeatureMatrix(n) ==
    [r \in Rows(n) |-> [c \in Columns(MaxCols) |-> r * MaxCols + c]]

\* The feature subsets a caller passes: None, or a list of at most MaxCols
\* column positions.
FeatureSets ==
    {[is_none |-> TRUE, columns |-> <<>>]}
    \cup {[is_none |-> FALSE, columns |-> cols] :
             cols \in UNION {[1..len -> Columns(MaxCols)] : len \in 0..MaxCols}}

\* A _filter_x_columns that treats the empty subset as None.
filter_x_columns_EmptyIsAll(X, feature_set) ==
    IF feature_set.is_none \/ Len(feature_set.columns) = 0 THEN X
    ELSE [r \in DOMAIN X |->
            [j \in Columns(Len(feature_set.columns)) |->
                X[r][feature_set.columns[j + 1]]]]

\* _filter_x_columns: X itself, np.ones((len(X), 1)), or
\* X[:, np.array(feature_set)].
filter_x_columns(X, feature_set) ==
    IF feature_set.is_none THEN X
    ELSE IF Len(feature_set.columns) = 0
    THEN [r \in DOMAIN X |-> [j \in Columns(1) |-> 1]]
    ELSE [r \in DOMAIN X |->
            [j \in Columns(Len(feature_set.columns)) |->
                X[r][feature_set.columns[j + 1]]]]

\* self.feature_set as __init__ sets it: the argument itself if it is a dict
\* with exactly the slot names as keys, else the argument for every slot.
initialize_feature_set(is_dict, argument) ==
    IF is_dict /\ DOMAIN argument = ModelKinds THEN argument
    ELSE initialize_model_dict(argument, ModelKinds)

\* The feature_set arguments drawn: one subset for all slots, or a dict that
\* gives the propensity slot one subset and the other slots another.
FeatureSetArgs ==
    {[is_dict |-> FALSE, value |-> fs] : fs \in FeatureSets}
    \cup {[is_dict |-> TRUE,
           value   |-> [k \in ModelKinds |->
                          IF k = PROPENSITY_MODEL THEN fs1 ELSE fs2]] :
             fs1 \in FeatureSets, fs2 \in FeatureSets}

\* The X that fit_nuisance, fit_treatment, predict_nuisance and
\* predict_treatment of slot model_kind hand to the slot's CrossFitEstimator.
x_filtered(feature_set, X, model_kind) ==
    filter_x_columns(X, feature_set[model_kind])

InitFeatures ==
    /\ cfe = NewCrossFitEstimator(LearnerFolds, FALSE, TRUE)
    /\ fit_rows = 0
    /\ fit_completed = FALSE
    /\ last = NoCall
    /\ learner = NoLearner
    /\ rl_pc = "idle"
    /\ \E n \in 1..MaxObs, a \in FeatureSetArgs :
          rl_last = [op          |-> "args",
                     err         |-> "",
                     rows        |-> n,
                     feature_set |-> initialize_feature_set(a.is_dict, a.value)]

\* The call op on slot model_kind filters X for the slot.
FilterCall(op, model_kind) ==
    /\ rl_last.op = "args"
    /\ rl_last' = [op          |-> op,
                   err         |-> "",
                   rows        |-> rl_last.rows,
                   feature_set |-> rl_last.feature_set,
                   model_kind  |-> model_kind,
                   X_filtered  |-> x_filtered(rl_last.feature_set,
                                              FeatureMatrix(rl_last.rows),
                                              model_kind)]
    /\ UNCHANGED <<cfe, fit_rows, fit_completed, last, learner, rl_pc>>

\* fit_nuisance line 487
FitNuisanceFilter ==
    \E model_kind \in nuisance_model_names :
        /\ rl_last.op = "args"
        /\ FilterCall("fit_nuisance", model_kind)

\* fit_treatment line 509
FitTreatmentFilter ==
    \E model_kind \in treatment_model_names :
        /\ rl_last.op = "args"
        /\ FilterCall("fit_treatment", model_kind)

\* predict_nuisance line 571
PredictNuisanceFilter ==
    \E model_kind \in nuisance_model_names :
        /\ rl_last.op = "args"
        /\ FilterCall("predict_nuisance", model_kind)

\* predict_treatment line 593
PredictTreatmentFilter ==
    \E model_kind \in treatment_model_names :
        /\ rl_last.op = "args"
        /\ FilterCall("predict_treatment", model_kind)

NextFeatures ==
    \/ FitNuisanceFilter
    \/ FitTreatmentFilter
    \/ PredictNuisanceFilter
    \/ PredictTreatmentFilter

SpecFeatures == InitFeatures /\ [][NextFeatures]_vars

FilterOps ==
    {"fit_nuisance", "fit_treatment", "predict_nuisance", "predict_treatment"}

\* C19: in fit and in predict alike, the matrix handed to a slot's estimator
\* has the rows of X and, for the slot's feature subset, all columns of X
\* unchanged (None), one column of ones (empty subset), or one column per
\* listed position, in the listed order, holding that column of X.
C19_FeatureSubsetResolved ==
    rl_last.op \in FilterOps =>
        LET X      == FeatureMatrix(rl_last.rows)
            subset == rl_last.feature_set[rl_last.model_kind]
            out    == rl_last.X_filtered
        IN  /\ DOMAIN out = Rows(rl_last.rows)
            /\ subset.is_none => out = X
            /\ (~subset.is_none /\ subset.columns = <<>>) =>
                   \A r \in DOMAIN out :
                       DOMAIN out[r] = {0} /\ out[r][0] = 1
            /\ (~subset.is_none /\ subset.columns # <<>>) =>
                   \A r \in DOMAIN out :
                       /\ DOMAIN out[r] = Columns(Len(subset.columns))
                       /\ \A j \in DOMAIN out[r] :
                              out[r][j] = X[r][subset.columns[j + 1]]

\* predict_nuisance filtered X for the propensity slot, whose subset is
\* empty while the other slots' is not: the slot's estimator gets one column
\* of ones with a row per observation.
C19_Witness ==
    /\ rl_last.op = "predict_nuisance"
    /\ rl_last.model_kind = PROPENSITY_MODEL
    /\ rl_last.rows = MaxObs
    /\ ~rl_last.feature_set[PROPENSITY_MODEL].is_none
    /\ rl_last.feature_set[PROPENSITY_MODEL].columns = <<>>
    /\ rl_last.feature_set[OUTCOME_MODEL].columns = <<1, 0>>
    /\ rl_last.X_filtered = [r \in Rows(MaxObs) |-> [j \in {0} |-> 1]]

(***************************************************************************)
(* Pseudo-outcome arithmetic                                               *)
(*                                                                         *)
(* Lines 266-269 of _pseudo_outcome_and_weights on residuals a caller's    *)
(* data can give: negative, zero and positive, -epsilon among them.        *)
(***************************************************************************)

\* Largest magnitude of a residual, in model units.
MaxResidual == 2

\* Largest epsilon a caller passes to fit, in model units.
MaxEpsilon == 2

ResidualValues == (-MaxResidual)..MaxResidual

\* The epsilon argument of fit: the code takes any float, 0 included.
EpsilonValues == 0..MaxEpsilon

\* y_residuals with every entry c: of one axis (y - y_estimates[:, 1]) or of
\* two (an (N,) y minus an (N, 1) y_estimates).
YResiduals(n, ndim, c) ==
    IF ndim = 1 THEN [j \in Rows(n) |-> c]
    ELSE [i \in Rows(n) |-> [j \in Rows(n) |-> c]]

InitPseudo ==
    /\ cfe = NewCrossFitEstimator(LearnerFolds, FALSE, TRUE)
    /\ fit_rows = 0
    /\ fit_completed = FALSE
    /\ last = NoCall
    /\ learner = NoLearner
    /\ rl_pc = "idle"
    /\ \E w_residuals \in [Rows(MaxObs) -> ResidualValues],
          epsilon \in EpsilonValues, ndim \in {1, 2}, c \in {-1, 0, 1} :
          rl_last = [op          |-> "args",
                     err         |-> "",
                     y_residuals |-> YResiduals(MaxObs, ndim, c),
                     ndim        |-> ndim,
                     w_residuals |-> w_residuals,
                     epsilon     |-> epsilon]

\* epsilons = ...; pseudo_outcomes = ...; weights = ...; return
PseudoOutcomeArithmetic ==
    /\ rl_last.op = "args"
    /\ rl_last' = [op              |-> "pseudo_outcome",
                   err             |-> "",
                   y_residuals     |-> rl_last.y_residuals,
                   ndim            |-> rl_last.ndim,
                   w_residuals     |-> rl_last.w_residuals,
                   epsilon         |-> rl_last.epsilon,
                   pseudo_outcomes |-> pseudo_outcomes(rl_last.y_residuals,
                                                       rl_last.ndim,
                                                       rl_last.w_residuals,
                                                       rl_last.epsilon),
                   weights         |-> weights(rl_last.w_residuals)]
    /\ UNCHANGED <<cfe, fit_rows, fit_completed, last, learner, rl_pc>>

NextPseudo == PseudoOutcomeArithmetic

SpecPseudo == InitPseudo /\ [][NextPseudo]_vars

\* The denominators the returned quotients of observation j were divided by.
DenominatorsOf(call, j) ==
    IF call.ndim = 1 THEN {call.pseudo_outcomes[j][2]}
    ELSE {call.pseudo_outcomes[i][j][2] : i \in DOMAIN call.pseudo_outcomes}

Abs(v) == IF v < 0 THEN 0 - v ELSE v

\* C22: with an epsilon > 0, the denominator of every observation is its
\* w_residual minus epsilon if the residual is negative and plus epsilon
\* otherwise; it is never zero, its magnitude is at least epsilon, and it has
\* the sign of a non-zero w_residual.
C22_SignedEpsilonDenominator ==
    (rl_last.op = "pseudo_outcome" /\ rl_last.epsilon > 0) =>
        \A j \in DOMAIN rl_last.w_residuals :
        \A d \in DenominatorsOf(rl_last, j) :
            LET w_residual == rl_last.w_residuals[j]
            IN  /\ d = w_residual + (IF w_residual < 0 THEN 0 - rl_last.epsilon
                                                        ELSE rl_last.epsilon)
                /\ d # 0
                /\ Abs(d) >= rl_last.epsilon
                /\ (w_residual > 0 => d > 0)
                /\ (w_residual < 0 => d < 0)

\* The quotients were taken of residuals of which one is -epsilon, one zero
\* and one positive.
C22_Witness ==
    /\ rl_last.op = "pseudo_outcome" /\ rl_last.epsilon > 0
    /\ \E j \in DOMAIN rl_last.w_residuals :
          rl_last.w_residuals[j] = 0 - rl_last.epsilon
    /\ \E j \in DOMAIN rl_last.w_residuals : rl_last.w_residuals[j] = 0
    /\ \E j \in DOMAIN rl_last.w_residuals : rl_last.w_residuals[j] > 0
====
